---- MODULE Spec2Model ----
(***************************************************************************)
(* Model of survey_analyzer.query_analyzer and its nested clean_sql.       *)
(*                                                                         *)
(* A Python str is a sequence of one-character strings.  One run of        *)
(* query_analyzer is a chain of stages; every external call (database,     *)
(* model client, chain construction, model invocations, SQL execution)     *)
(* either returns or raises, chosen nondeterministically.                  *)
(***************************************************************************)
EXTENDS Integers, Sequences, FiniteSets, TLC

\* Largest number of fragments concatenated to build a raw model text.
MaxFrags == 3

(***************************************************************************)
(* Characters                                                              *)
(***************************************************************************)
\* Characters str.strip() and the regex class \s treat as whitespace.
Whitespace == {" ", "\n", "\t"}

CaseMap ==
    ("A" :> "a") @@ ("B" :> "b") @@ ("C" :> "c") @@ ("D" :> "d") @@
    ("E" :> "e") @@ ("F" :> "f") @@ ("G" :> "g") @@ ("H" :> "h") @@
    ("I" :> "i") @@ ("J" :> "j") @@ ("K" :> "k") @@ ("L" :> "l") @@
    ("M" :> "m") @@ ("N" :> "n") @@ ("O" :> "o") @@ ("P" :> "p") @@
    ("Q" :> "q") @@ ("R" :> "r") @@ ("S" :> "s") @@ ("T" :> "t") @@
    ("U" :> "u") @@ ("V" :> "v") @@ ("W" :> "w") @@ ("X" :> "x") @@
    ("Y" :> "y") @@ ("Z" :> "z")

\* Case folding of re.IGNORECASE on the ASCII letters.
ToLower(c) == IF c \in DOMAIN CaseMap THEN CaseMap[c] ELSE c

\* s[i..] , the Python slice s[i-1:].
From(s, i) == SubSeq(s, i, Len(s))

\* Does the lower-case pattern pat occur in s at position i, ignoring case?
MatchesAtIgnoreCase(s, i, pat) ==
    /\ i >= 1
    /\ i + Len(pat) - 1 <= Len(s)
    /\ \A k \in 1..Len(pat) : ToLower(s[i + k - 1]) = pat[k]

\* Does pat occur in s at position i, case-sensitively?
MatchesAt(s, i, pat) ==
    /\ i >= 1
    /\ i + Len(pat) - 1 <= Len(s)
    /\ \A k \in 1..Len(pat) : s[i + k - 1] = pat[k]

(***************************************************************************)
(* str.strip()                                                             *)
(***************************************************************************)
RECURSIVE LStrip(_)
LStrip(s) ==
    IF s # <<>> /\ Head(s) \in Whitespace THEN LStrip(Tail(s)) ELSE s

RECURSIVE RStrip(_)
RStrip(s) ==
    IF s # <<>> /\ s[Len(s)] \in Whitespace
    THEN RStrip(SubSeq(s, 1, Len(s) - 1))
    ELSE s

\* A slip that trims the left end only.
LStripOnly(s) == LStrip(s)

Strip(s) == RStrip(LStrip(s))

(***************************************************************************)
(* clean_sql, step 1: re.sub(r"^(Question:|SQLQuery:)\s*", "", sql,        *)
(*                           flags=re.IGNORECASE).strip()                  *)
(***************************************************************************)
LabelQuestion ==
    <<"q", "u", "e", "s", "t", "i", "o", "n", ":">>
LabelSQLQuery ==
    <<"s", "q", "l", "q", "u", "e", "r", "y", ":">>

\* Length of the leading label the pattern matches at position 1, 0 if none.
LabelLen(s) ==
    IF MatchesAtIgnoreCase(s, 1, LabelQuestion) THEN Len(LabelQuestion)
    ELSE IF MatchesAtIgnoreCase(s, 1, LabelSQLQuery) THEN Len(LabelSQLQuery)
    ELSE 0

\* The substitution: "^" anchors the pattern at the start of the string (no
\* re.MULTILINE), so at most one label and the whitespace after it go.
RemoveLabel(s) ==
    IF LabelLen(s) > 0 THEN LStrip(From(s, LabelLen(s) + 1)) ELSE s

StripLabel(s) == Strip(RemoveLabel(s))

(***************************************************************************)
(* clean_sql, step 2: sql.replace(FENCE, "").replace("sql", "").strip()    *)
(* where FENCE is the string of three backquotes.                          *)
(***************************************************************************)
\* The backquote character U+0060.  The TLA+ lexer accepts no backquote in a
\* string, so the character is written by name.
Tick == "<backquote>"

Fence == <<Tick, Tick, Tick>>
SqlWord == <<"s", "q", "l">>

\* str.replace(pat, ""): one left-to-right pass over non-overlapping
\* occurrences; the result is not scanned again.
RECURSIVE Remove(_, _)
Remove(s, pat) ==
    IF Len(s) < Len(pat) THEN s
    ELSE IF MatchesAt(s, 1, pat) THEN Remove(From(s, Len(pat) + 1), pat)
    ELSE <<Head(s)>> \o Remove(Tail(s), pat)

StripMarkers(s) == Strip(Remove(Remove(s, Fence), SqlWord))

(***************************************************************************)
(* clean_sql, step 3: re.search(r"(SELECT\s.+)", sql,                      *)
(*                              re.IGNORECASE | re.DOTALL)                 *)
(***************************************************************************)
SelectWord == <<"s", "e", "l", "e", "c", "t">>

\* The pattern matches at i: SELECT in any case, one whitespace character,
\* and at least one more character (of any kind, DOTALL).
SelectAt(s, i) ==
    /\ MatchesAtIgnoreCase(s, i, SelectWord)
    /\ Len(s) >= i + Len(SelectWord) + 1
    /\ s[i + Len(SelectWord)] \in Whitespace

\* Start of the leftmost match at or after i; 0 when there is none.
RECURSIVE SearchFrom(_, _)
SearchFrom(s, i) ==
    IF i > Len(s) THEN 0
    ELSE IF SelectAt(s, i) THEN i
    ELSE SearchFrom(s, i + 1)

\* A slip that keeps the match only when it starts the string (re.match).
SearchAtStartOnly(s) == IF SelectAt(s, 1) THEN 1 ELSE 0

\* re.search: start of the match, 0 for None.
Search(s) == SearchFrom(s, 1)

\* A slip that returns nothing when the pattern does not match.
ExtractSelectOrEmpty(s) ==
    IF Search(s) > 0 THEN Strip(From(s, Search(s))) ELSE <<>>

\* A slip that captures what follows "SELECT\s": r"SELECT\s(.+)".
ExtractAfterSelect(s) ==
    IF Search(s) > 0
    THEN Strip(From(s, Search(s) + Len(SelectWord) + 1))
    ELSE s

\* Lines 93-96 on the text cleaned by steps 1-2: group(1) runs from the
\* match to the end of the string (greedy .+ under DOTALL).
ExtractSelect(s) ==
    IF Search(s) > 0 THEN Strip(From(s, Search(s))) ELSE s

clean_sql(sql) == ExtractSelect(StripMarkers(StripLabel(sql)))

(***************************************************************************)
(* Values of one run                                                       *)
(***************************************************************************)
\* Python None, and a value that is not None.
None == [some |-> FALSE, val |-> <<>>]
Some(v) == [some |-> TRUE, val |-> v]

\* Texts of the exceptions the external calls raise (str(e) may be empty).
ExcTexts == {<<>>, <<"b", "o", "o", "m">>}

\* Result tables pd.read_sql_query can produce, each a sequence of rows.
Tables == {<<>>, <<<<"7">>>>}

\* Texts the summarizing model call can return.
Answers == {<<>>, <<"o", "k">>}

\* The two texts of the worked examples, and what they are cleaned to.
FencedExample ==
    <<Tick, Tick, Tick, "s", "q", "l", "\n", "S", "E", "L", "E", "C", "T", " ",
      "A", "V", "G", "(", "P", "R", "E", "T", "_", "S", "C", "O", "R", "E", ")",
      ",", " ", "A", "V", "G", "(", "P", "O", "S", "T", "T", "_", "S", "C", "O",
      "R", "E", ")", " ", "F", "R", "O", "M", " ", "S", "h", "e", "e", "t", "2",
      ";", "\n", Tick, Tick, Tick>>
FencedExpected ==
    <<"S", "E", "L", "E", "C", "T", " ", "A", "V", "G", "(", "P", "R", "E", "T",
      "_", "S", "C", "O", "R", "E", ")", ",", " ", "A", "V", "G", "(", "P", "O",
      "S", "T", "T", "_", "S", "C", "O", "R", "E", ")", " ", "F", "R", "O", "M",
      " ", "S", "h", "e", "e", "t", "2", ";">>
LabelledExample ==
    <<"S", "Q", "L", "Q", "u", "e", "r", "y", ":", " ", "S", "E", "L", "E", "C",
      "T", " ", "*", " ", "F", "R", "O", "M", " ", "S", "h", "e", "e", "t", "1",
      " ", "W", "H", "E", "R", "E", " ", "Q", "u", "e", "s", "t", "i", "o", "n",
      "_", "n", "o", " ", "=", " ", "5">>
LabelledExpected ==
    <<"S", "E", "L", "E", "C", "T", " ", "*", " ", "F", "R", "O", "M", " ", "S",
      "h", "e", "e", "t", "1", " ", "W", "H", "E", "R", "E", " ", "Q", "u", "e",
      "s", "t", "i", "o", "n", "_", "n", "o", " ", "=", " ", "5">>

\* A mutating statement a model that ignores the prompt could emit.
DropStatement ==
    <<"D", "R", "O", "P", " ", "T", "A", "B", "L", "E", " ", "t">>

\* Further raw model texts: a statement that is not a SELECT, prose around a
\* statement, marker characters inside a statement.
Examples ==
    { FencedExample, LabelledExample,
      DropStatement,
      <<"x", " ", "S", "E", "s", "q", "l", "L", "E", "C", "T", " ", "1">>,
      <<"x", " ", "S", "E", Tick, Tick, Tick, "L", "E", "C", "T", " ", "1">>,
      <<"S", "E", "L", "E", "C", "T", " ", "s", "s", "q", "l", "q", "l">>,
      <<"S", "E", "L", "E", "C", "T", " ", Tick, Tick, "s", "q", "l", Tick>>,
      <<"I", " ", "c", "a", "n", "n", "o", "t", " ", "S", "E", "L", "E", "C", "T">>,
      <<"S", "E", "L", "E", "C", "T", "x", " ", "s", "e", "l", "e", "c", "t", " ", "y">>,
      <<"Q", "u", "e", "s", "t", "i", "o", "n", ":", " ", "Q", "u", "e", "s",
        "t", "i", "o", "n", ":", " ", "x">> }

\* Fragments raw model texts are assembled from.
Frags ==
    { <<"S", "E", "L", "E", "C", "T">>,
      <<"s", "e", "l", "e", "c", "t", " ">>,
      <<" ">>, <<"\n">>, <<"x">>,
      <<"s", "q", "l">>, Fence, <<"s">>, <<"q", "l">>, <<Tick>>,
      <<"S", "Q", "L", "Q", "u", "e", "r", "y", ":">>,
      <<"q", "u", "e", "s", "t", "i", "o", "n", ":", " ">> }

RECURSIVE Concat(_)
Concat(fs) == IF fs = <<>> THEN <<>> ELSE Head(fs) \o Concat(Tail(fs))

\* The raw model texts of the model: every concatenation of at most MaxFrags
\* fragments, and the examples.
RawTexts ==
    Examples \cup
    { Concat(fs) : fs \in UNION { [1..n -> Frags] : n \in 0..MaxFrags } }

(***************************************************************************)
(* Error messages and returned tuples of query_analyzer                    *)
(***************************************************************************)
ConnErrPrefix ==
    <<"E", "r", "r", "o", "r", " ", "c", "o", "n", "n", "e", "c", "t", "i", "n",
      "g", " ", "t", "o", " ", "d", "a", "t", "a", "b", "a", "s", "e", ":", " ">>
LlmErrPrefix ==
    <<"E", "r", "r", "o", "r", " ", "i", "n", "i", "t", "i", "a", "l", "i", "z",
      "i", "n", "g", " ", "L", "L", "M", ".", " ", "P", "l", "e", "a", "s", "e",
      " ", "c", "h", "e", "c", "k", " ", "y", "o", "u", "r", " ", "A", "P", "I",
      " ", "k", "e", "y", ".", " ", "D", "e", "t", "a", "i", "l", "s", ":", " ">>
GenErrPrefix ==
    <<"E", "r", "r", "o", "r", " ", "d", "u", "r", "i", "n", "g", " ", "S", "Q",
      "L", " ", "g", "e", "n", "e", "r", "a", "t", "i", "o", "n", ":", " ">>
ExecErrPrefix ==
    <<"S", "Q", "L", " ", "E", "x", "e", "c", "u", "t", "i", "o", "n", " ", "E",
      "r", "r", "o", "r", ":", " ">>
ExecErrMiddle ==
    <<"\n", "A", "t", "t", "e", "m", "p", "t", "e", "d", " ", "Q", "u", "e", "r",
      "y", ":", " ">>
SummErrPrefix ==
    <<"E", "r", "r", "o", "r", " ", "d", "u", "r", "i", "n", "g", " ", "s", "u",
      "m", "m", "a", "r", "i", "z", "a", "t", "i", "o", "n", ":", " ">>

\* A slip that returns str(e) alone and keeps the slots filled so far.
EarlyFailureBare(prefix, e) == <<e, Some(<<>>), None>>

\* return error_msg, None, None  (lines 29-31, 42-44, 109-111)
EarlyFailure(prefix, e) == <<prefix \o e, None, None>>

\* A slip that drops the attempted query from the tuple.
ExecFailureNoSql(e, sql) ==
    <<ExecErrPrefix \o e \o ExecErrMiddle \o sql, None, None>>

\* return error_msg, sql_query, None  (lines 122-124)
ExecFailure(e, sql) ==
    <<ExecErrPrefix \o e \o ExecErrMiddle \o sql, Some(sql), None>>

\* A slip that drops the table from the tuple.
SummFailureNoTable(e, sql, df) == <<SummErrPrefix \o e, Some(sql), None>>

\* return error_msg, sql_query, result_df  (lines 148-150)
SummFailure(e, sql, df) == <<SummErrPrefix \o e, Some(sql), Some(df)>>

\* return final_answer, sql_query, result_df  (line 146)
Success(answer, sql, df) == <<answer, Some(sql), Some(df)>>

(***************************************************************************)
(* One run of query_analyzer                                               *)
(***************************************************************************)
VARIABLES
    pc,          \* the stage the run is about to enter, "returned" once it
                 \* has returned, "raised" once an exception left the function
    raw_sql,     \* the raw model text (line 106); <<>> before the call
    sql_query,   \* clean_sql(raw_sql) (line 114); <<>> before sanitization
    result_df,   \* the table pd.read_sql_query produced; None before
    ret,         \* the tuples the run has returned, in order
    log,         \* the external calls and steps made so far, with outcome
    executed     \* the strings handed to pd.read_sql_query, in order

vars == <<pc, raw_sql, sql_query, result_df, ret, log, executed>>

Entry(stage, ok) == [stage |-> stage, ok |-> ok]

Init ==
    /\ pc = "connect"
    /\ raw_sql = <<>>
    /\ sql_query = <<>>
    /\ result_df = None
    /\ ret = <<>>
    /\ log = <<>>
    /\ executed = <<>>

\* Lines 25-31: create_engine and SQLDatabase.
Connect ==
    /\ pc = "connect"
    /\ \/ /\ pc' = "init_llm"
          /\ log' = Append(log, Entry("connect", TRUE))
          /\ ret' = ret
       \/ \E e \in ExcTexts :
          /\ pc' = "returned"
          /\ log' = Append(log, Entry("connect", FALSE))
          /\ ret' = Append(ret, EarlyFailure(ConnErrPrefix, e))
    /\ UNCHANGED <<raw_sql, sql_query, result_df, executed>>

\* Lines 36-44: GoogleGenerativeAI(...).
InitLlm ==
    /\ pc = "init_llm"
    /\ \/ /\ pc' = "build_chain"
          /\ log' = Append(log, Entry("init_llm", TRUE))
          /\ ret' = ret
       \/ \E e \in ExcTexts :
          /\ pc' = "returned"
          /\ log' = Append(log, Entry("init_llm", FALSE))
          /\ ret' = Append(ret, EarlyFailure(LlmErrPrefix, e))
    /\ UNCHANGED <<raw_sql, sql_query, result_df, executed>>

\* Lines 50-82: PromptTemplate(...) and SQLDatabaseChain.from_llm(...), made
\* outside every try block: an exception raised here leaves query_analyzer.
BuildChain ==
    /\ pc = "build_chain"
    /\ \/ /\ pc' = "generate"
          /\ log' = Append(log, Entry("build_chain", TRUE))
       \/ /\ pc' = "raised"
          /\ log' = Append(log, Entry("build_chain", FALSE))
    /\ UNCHANGED <<raw_sql, sql_query, result_df, ret, executed>>

\* Lines 104-111: sql_chain.invoke and the extraction of its result.
Generate ==
    /\ pc = "generate"
    /\ \/ \E r \in RawTexts :
          /\ pc' = "sanitize"
          /\ raw_sql' = r
          /\ log' = Append(log, Entry("generate", TRUE))
          /\ ret' = ret
       \/ \E e \in ExcTexts :
          /\ pc' = "returned"
          /\ raw_sql' = raw_sql
          /\ log' = Append(log, Entry("generate", FALSE))
          /\ ret' = Append(ret, EarlyFailure(GenErrPrefix, e))
    /\ UNCHANGED <<sql_query, result_df, executed>>

\* A slip that refuses a cleaned text that is no SELECT statement.
SanitizeSelectOnly ==
    /\ pc = "sanitize"
    /\ sql_query' = clean_sql(raw_sql)
    /\ log' = Append(log, Entry("sanitize", TRUE))
    /\ IF SelectAt(clean_sql(raw_sql), 1)
       THEN pc' = "execute" /\ ret' = ret
       ELSE pc' = "returned" /\
            ret' = Append(ret, <<clean_sql(raw_sql), None, None>>)
    /\ UNCHANGED <<raw_sql, result_df, executed>>

\* Line 114: sql_query = clean_sql(raw_sql); nothing is checked.
Sanitize ==
    /\ pc = "sanitize"
    /\ sql_query' = clean_sql(raw_sql)
    /\ log' = Append(log, Entry("sanitize", TRUE))
    /\ pc' = "execute"
    /\ UNCHANGED <<raw_sql, result_df, ret, executed>>

\* Lines 118-124: pd.read_sql_query(sql_query, engine).
Execute ==
    /\ pc = "execute"
    /\ executed' = Append(executed, sql_query)
    /\ \/ \E t \in Tables :
          /\ pc' = "summarize"
          /\ result_df' = Some(t)
          /\ log' = Append(log, Entry("execute", TRUE))
          /\ ret' = ret
       \/ \E e \in ExcTexts :
          /\ pc' = "returned"
          /\ result_df' = result_df
          /\ log' = Append(log, Entry("execute", FALSE))
          /\ ret' = Append(ret, ExecFailure(e, sql_query))
    /\ UNCHANGED <<raw_sql, sql_query>>

\* Lines 127-150: the summary prompt and llm.invoke.
Summarize ==
    /\ pc = "summarize"
    /\ pc' = "returned"
    /\ \/ \E a \in Answers :
          /\ log' = Append(log, Entry("summarize", TRUE))
          /\ ret' = Append(ret, Success(a, sql_query, result_df.val))
       \/ \E e \in ExcTexts :
          /\ log' = Append(log, Entry("summarize", FALSE))
          /\ ret' = Append(ret, SummFailure(e, sql_query, result_df.val))
    /\ UNCHANGED <<raw_sql, sql_query, result_df, executed>>

Next ==
    \/ Connect
    \/ InitLlm
    \/ BuildChain
    \/ Generate
    \/ Sanitize
    \/ Execute
    \/ Summarize

Spec == Init /\ [][Next]_vars

(***************************************************************************)
(* Properties                                                              *)
(***************************************************************************)
Ran(stage) == \E i \in DOMAIN log : log[i].stage = stage
Succeeded(stage) == \E i \in DOMAIN log : log[i].stage = stage /\ log[i].ok
Failed(stage) == \E i \in DOMAIN log : log[i].stage = stage /\ ~log[i].ok

\* The run is over: it returned a tuple or an exception left it.
Finished == pc \in {"returned", "raised"}

\* The text steps 1-2 of clean_sql leave of the raw model text.
Cleaned == StripMarkers(StripLabel(raw_sql))

\* pat occurs somewhere in s (case-sensitively).
Contains(s, pat) == \E i \in 1..Len(s) : MatchesAt(s, i, pat)

\* The letters of SELECT occur somewhere in s, in any letter case.
HasSelectToken(s) == \E i \in 1..Len(s) : MatchesAtIgnoreCase(s, i, SelectWord)

\* The pattern of step 3 matches somewhere in s.
HasSelectMatch(s) == \E i \in 1..Len(s) : SelectAt(s, i)

C2_EarlyFailureReturnsNulls ==
    \A st \in {"connect", "init_llm", "generate"} :
        Failed(st) =>
            /\ pc = "returned"
            /\ Len(ret) = 1
            /\ Len(ret[1][1]) > 0
            /\ ret[1][2] = None
            /\ ret[1][3] = None
            /\ ~Ran("sanitize")
            /\ ~Ran("execute")
            /\ ~Ran("summarize")
            /\ executed = <<>>

C2_Witness ==
    /\ Failed("generate")
    /\ ret = <<EarlyFailure(GenErrPrefix, <<>>)>>

C4_NeverPropagates ==
    Finished => (pc = "returned" /\ Len(ret) = 1 /\ ret[1][1] \in Seq(STRING))

\* C5 as stated: when the raw text contains a SELECT token in any letter
\* case, the output of clean_sql begins at a SELECT token and contains no
\* triple-backquote marker and no sql marker.
C5_Original ==
    (Ran("sanitize") /\ HasSelectToken(raw_sql)) =>
        /\ MatchesAtIgnoreCase(sql_query, 1, SelectWord)
        /\ ~Contains(sql_query, Fence)
        /\ ~Contains(sql_query, SqlWord)

\* C5 amended: when the text left by steps 1-2 contains SELECT (any letter
\* case) followed by a whitespace character and at least one more character,
\* clean_sql returns exactly the part of that text from the first such
\* SELECT to its end; everything before it is dropped, and the output holds a
\* marker only where the single removal pass left one in the cleaned text.
C5_ReturnsFromFirstSelectMatch ==
    (Ran("sanitize") /\ HasSelectMatch(Cleaned)) =>
        \E i \in 1..Len(Cleaned) :
            /\ SelectAt(Cleaned, i)
            /\ \A j \in 1..(i - 1) : ~SelectAt(Cleaned, j)
            /\ sql_query = From(Cleaned, i)
            /\ SelectAt(sql_query, 1)
            /\ Contains(sql_query, Fence) => Contains(Cleaned, Fence)
            /\ Contains(sql_query, SqlWord) => Contains(Cleaned, SqlWord)

C5_Witness ==
    /\ Ran("sanitize")
    /\ HasSelectMatch(Cleaned)
    /\ ~SelectAt(Cleaned, 1)
    /\ Len(sql_query) < Len(Cleaned)

\* C6 as stated: when the raw text contains no SELECT token, the output of
\* clean_sql is the raw text with steps 1-2 applied.
C6_Original ==
    (Ran("sanitize") /\ ~HasSelectToken(raw_sql)) => sql_query = Cleaned

\* C6 amended: when the text left by steps 1-2 (each ending with the trim of
\* surrounding whitespace) contains no SELECT followed by a whitespace
\* character and one more character, clean_sql returns exactly that text.
C6_NoMatchReturnsCleaned ==
    (Ran("sanitize") /\ ~HasSelectMatch(Cleaned)) =>
        /\ sql_query = Cleaned
        /\ sql_query = Strip(Remove(Remove(Strip(RemoveLabel(raw_sql)), Fence),
                                    SqlWord))

C6_Witness ==
    /\ Ran("sanitize")
    /\ ~HasSelectMatch(Cleaned)
    /\ HasSelectToken(raw_sql)
    /\ sql_query # <<>>
    /\ sql_query # raw_sql

\* C7 as stated: clean_sql applied to its own output returns that output.
C7_Original ==
    Ran("sanitize") => clean_sql(sql_query) = sql_query

\* C7 amended: clean_sql applied to its own output returns that output
\* whenever the output holds no triple-backquote marker, no lower-case sql
\* and does not begin with a Question: or SQLQuery: label.
C7_IdempotentOnMarkerFreeOutput ==
    ( /\ Ran("sanitize")
      /\ ~Contains(sql_query, Fence)
      /\ ~Contains(sql_query, SqlWord)
      /\ LabelLen(sql_query) = 0 ) =>
        clean_sql(sql_query) = sql_query

C7_Witness ==
    /\ Ran("sanitize")
    /\ ~Contains(sql_query, Fence)
    /\ ~Contains(sql_query, SqlWord)
    /\ LabelLen(sql_query) = 0
    /\ sql_query # raw_sql
    /\ HasSelectMatch(From(sql_query, 2))

\* C8: the fenced example and the labelled example are cleaned to their bare
\* SELECT statements.
C8_WorkedExamples ==
    Ran("sanitize") =>
        /\ raw_sql = FencedExample => sql_query = FencedExpected
        /\ raw_sql = LabelledExample => sql_query = LabelledExpected

C8_Witness ==
    /\ raw_sql = FencedExample
    /\ executed = <<FencedExpected>>

\* C9: the string handed to SQL execution is clean_sql of the raw model text
\* of the run, and once the generation call has succeeded the run does not
\* end before execution was attempted on it, SELECT statement or not.
C9_ExecutesSanitizerOutputUnchecked ==
    /\ \A i \in DOMAIN executed : executed[i] = clean_sql(raw_sql)
    /\ (Succeeded("generate") /\ Finished) =>
        /\ Ran("execute")
        /\ Len(executed) = 1

C9_Witness ==
    /\ raw_sql = DropStatement
    /\ executed = <<DropStatement>>
    /\ ~HasSelectToken(executed[1])

\* The stages in the order the function makes them.
StageOrder ==
    <<"connect", "init_llm", "build_chain", "generate", "sanitize", "execute",
      "summarize">>

StageIndex(stage) == CHOOSE k \in DOMAIN StageOrder : StageOrder[k] = stage

\* C10: the stages run in the fixed order, each at most once; SQL execution
\* only after a successful generation call, the summarization call only
\* after a successful SQL execution; and a run that is over has returned
\* exactly one tuple.
C10_OrderedOnceAndReturns ==
    /\ \A i, j \in DOMAIN log :
        i < j => StageIndex(log[i].stage) < StageIndex(log[j].stage)
    /\ Ran("execute") => Succeeded("generate")
    /\ Ran("summarize") => Succeeded("execute")
    /\ Len(ret) <= 1
    /\ Len(ret) = 1 => pc = "returned"
    /\ Finished => Len(ret) = 1

====
